---- MODULE Spec2Model ----
(***************************************************************************)
(* BoxFilter of utils/boxes_validation_utils.py: the constructor's value   *)
(* checks and __call__, which filters a label table against an image       *)
(* region.  Numbers are exact: coordinates and region sizes are integers,  *)
(* the overlap bounds and the IoU are rationals <<numerator, denominator>> *)
(* with a positive denominator (0, 1/2 and 1 are exact in binary floating  *)
(* point, so the comparisons below are the ones numpy makes).              *)
(***************************************************************************)
EXTENDS Integers, Sequences, FiniteSets, TLC

\* ------------------------------------------------------------------ bounds
MaxCoord == 3       \* box coordinates range over -1 .. MaxCoord
MaxRows == 3        \* label tables have at most MaxRows rows
SmallMinArea == 2   \* the non-default min_area the filters are built with

\* --------------------------------------------------------- python values
\* an optional number (an argument that defaults to None): <<>> is None and
\* <<v>> is the number v
None == <<>>
Some(v) == <<v>>
Val(o) == o[1]

\* rationals <<n, d>>, d > 0
RatLe(a, b) == a[1] * b[2] <= b[1] * a[2]
RatLt(a, b) == a[1] * b[2] < b[1] * a[2]
RatGt(a, b) == RatLt(b, a)
RatOfInt(i) == <<i, 1>>
RatMulInt(a, i) == <<a[1] * i, a[2]>>

Min(a, b) == IF a <= b THEN a ELSE b
Max(a, b) == IF a >= b THEN a ELSE b

\* ------------------------------------------------------- constructor args
DefaultLabelsFormat == [class_id |-> 0, xmin |-> 1, ymin |-> 2, xmax |-> 3, ymax |-> 4]

Criteria == {"iou", "area", "center_point"}
BorderPixels == {"half", "include", "exclude"}

\* what the caller passes as overlap_bounds: a tuple of scalars, a
\* BoundGenerator instance, or some other object (a bare scalar)
Tuple(items) == [kind |-> "tuple", items |-> items]
BoundGeneratorObj == [kind |-> "BoundGenerator", items |-> <<>>]
ScalarObj == [kind |-> "scalar", items |-> <<>>]

NoFilter == [constructed |-> FALSE]

\* BoxFilter.__init__ : the exception it raises ("none" when it returns) and
\* the object it leaves behind
BoxFilterInit(args) ==
    LET ob == args.overlap_bounds
    IN  IF ob.kind \notin {"list", "tuple", "BoundGenerator"}
        THEN [raised |-> "ValueError", self |-> NoFilter]
        ELSE IF ob.kind \in {"list", "tuple"} /\ Len(ob.items) < 2
        THEN [raised |-> "IndexError", self |-> NoFilter]
        ELSE IF ob.kind \in {"list", "tuple"} /\ RatGt(ob.items[1], ob.items[2])
        THEN [raised |-> "ValueError", self |-> NoFilter]
        ELSE IF args.overlap_criterion \notin Criteria
        THEN [raised |-> "ValueError", self |-> NoFilter]
        ELSE [raised |-> "none",
              self |-> [constructed |-> TRUE,
                        overlap_criterion |-> args.overlap_criterion,
                        overlap_bounds |-> args.overlap_bounds,
                        min_area |-> args.min_area,
                        check_overlap |-> args.check_overlap,
                        check_min_area |-> args.check_min_area,
                        check_degenerate |-> args.check_degenerate,
                        labels_format |-> args.labels_format,
                        border_pixels |-> args.border_pixels]]

\* ------------------------------------------------------------ numpy arrays
\* A label table is a sequence of rows; a row is a sequence of numbers and
\* column c of the python array is element c + 1 of the row.
Col(row, field, fmt) == row[fmt[field] + 1]

\* The arrays a call can hold references to: the caller's array and the two
\* arrays __call__ creates with np.copy.
Refs == {"arg", "labels", "clipped_boxes"}

\* no copy: the "copy" is the source array itself
NpCopyAlias(heap, src, dst) == [heap |-> heap, ref |-> src]

\* np.copy(heap[src]): a fresh array at dst with the same contents
NpCopy(heap, src, dst) == [heap |-> [heap EXCEPT ![dst] = heap[src]], ref |-> dst]

\* np.clip(a, a_min, a_max) on one element
NpClip(a, a_min, a_max) == Min(Max(a, a_min), a_max)

\* heap[dst][:, [f1, f2]] = np.clip(heap[src][:, [f1, f2]], a_min=0, a_max=a_max)
ClipAssign(heap, dst, src, f1, f2, fmt, a_max) ==
    [heap EXCEPT ![dst] =
        [i \in 1..Len(heap[dst]) |->
            [c \in 1..Len(heap[dst][i]) |->
                IF c \in {fmt[f1] + 1, fmt[f2] + 1}
                THEN NpClip(heap[src][i][c], 0, a_max)
                ELSE heap[dst][i][c]]]]

\* boolean masks, one entry per row
Ones(n) == [i \in 1..n |-> TRUE]
MaskAnd(a, b) == [i \in 1..Len(a) |-> a[i] /\ b[i]]

RECURSIVE BoolIndexReversed(_, _)
\* the selected rows, last one first
BoolIndexReversed(labels, mask) ==
    IF labels = <<>> THEN <<>>
    ELSE IF Head(mask)
         THEN BoolIndexReversed(Tail(labels), Tail(mask)) \o <<Head(labels)>>
         ELSE BoolIndexReversed(Tail(labels), Tail(mask))

\* the selected rows but for row 0, which is skipped (labels[1:][mask[1:]])
BoolIndexFromSecond(labels, mask) ==
    LET tagged == [i \in 1..Len(labels) |-> <<labels[i], i >= 2 /\ mask[i]>>]
        kept == SelectSeq(tagged, LAMBDA p : p[2])
    IN  [j \in 1..Len(kept) |-> kept[j][1]]

RECURSIVE BoolIndex(_, _)
\* labels[mask]: the rows whose mask entry is true, in row order
BoolIndex(labels, mask) ==
    IF labels = <<>> THEN <<>>
    ELSE IF Head(mask)
         THEN <<Head(labels)>> \o BoolIndex(Tail(labels), Tail(mask))
         ELSE BoolIndex(Tail(labels), Tail(mask))

\* --------------------------------------------------------------- the checks
\* >= for >: a box of no width or no height passes
NonDegenerateWeak(labels, fmt) ==
    [i \in 1..Len(labels) |->
        /\ Col(labels[i], "xmax", fmt) >= Col(labels[i], "xmin", fmt)
        /\ Col(labels[i], "ymax", fmt) >= Col(labels[i], "ymin", fmt)]

NonDegenerate(labels, fmt) ==
    [i \in 1..Len(labels) |->
        /\ Col(labels[i], "xmax", fmt) > Col(labels[i], "xmin", fmt)
        /\ Col(labels[i], "ymax", fmt) > Col(labels[i], "ymin", fmt)]

MinAreaMet(labels, fmt, min_area) ==
    [i \in 1..Len(labels) |->
        (Col(labels[i], "xmax", fmt) - Col(labels[i], "xmin", fmt))
        * (Col(labels[i], "ymax", fmt) - Col(labels[i], "ymin", fmt)) >= min_area]

BorderD(border_pixels) ==
    CASE border_pixels = "half" -> 0
      [] border_pixels = "include" -> 1
      [] border_pixels = "exclude" -> -1

BoxAreas(labels, fmt, d) ==
    [i \in 1..Len(labels) |->
        (Col(labels[i], "xmax", fmt) - Col(labels[i], "xmin", fmt) + d)
        * (Col(labels[i], "ymax", fmt) - Col(labels[i], "ymin", fmt) + d)]

IntersectionAreas(clipped_boxes, fmt, d) ==
    [i \in 1..Len(clipped_boxes) |->
        (Col(clipped_boxes[i], "xmax", fmt) - Col(clipped_boxes[i], "xmin", fmt) + d)
        * (Col(clipped_boxes[i], "ymax", fmt) - Col(clipped_boxes[i], "ymin", fmt) + d)]

AreaMask(intersection_areas, box_areas, lower, upper) ==
    [i \in 1..Len(box_areas) |->
        /\ IF lower[1] = 0
           THEN intersection_areas[i] > 0
           ELSE RatLe(RatMulInt(lower, box_areas[i]), RatOfInt(intersection_areas[i]))
        /\ RatLe(RatOfInt(intersection_areas[i]), RatMulInt(upper, box_areas[i]))]

\* the `area` branch; it works on the heap because it copies and overwrites
AreaCriterion(heap, labels_ref, self, lower, upper, image_height, image_width) ==
    LET fmt == self.labels_format
        d == BorderD(self.border_pixels)
        box_areas == BoxAreas(heap[labels_ref], fmt, d)
        cp == NpCopy(heap, labels_ref, "clipped_boxes")
        heap2 == IF image_height = None THEN cp.heap
                 ELSE ClipAssign(cp.heap, cp.ref, labels_ref, "ymin", "ymax", fmt,
                                 Val(image_height) - 1)
        heap3 == IF image_width = None THEN heap2
                 ELSE ClipAssign(heap2, cp.ref, labels_ref, "xmin", "xmax", fmt,
                                 Val(image_width) - 1)
        intersection_areas == IntersectionAreas(heap3[cp.ref], fmt, d)
    IN  IF image_height = None
        THEN [raised |-> "TypeError", mask |-> <<>>, heap |-> cp.heap,
              intersection_areas |-> <<>>]
        ELSE IF image_width = None
        THEN [raised |-> "TypeError", mask |-> <<>>, heap |-> heap2,
              intersection_areas |-> <<>>]
        ELSE [raised |-> "none",
              mask |-> AreaMask(intersection_areas, box_areas, lower, upper),
              heap |-> heap3,
              intersection_areas |-> intersection_areas]

\* < for <= at the far ends: a center on the last pixel is outside
ImageBoxCenterExclusive(labels, fmt, image_height, image_width) ==
    [i \in 1..Len(labels) |->
        LET cy == <<Col(labels[i], "ymin", fmt) + Col(labels[i], "ymax", fmt), 2>>
            cx == <<Col(labels[i], "xmin", fmt) + Col(labels[i], "xmax", fmt), 2>>
        IN  /\ RatLe(RatOfInt(0), cy)
            /\ RatLt(cy, RatOfInt(Val(image_height) - 1))
            /\ RatLe(RatOfInt(0), cx)
            /\ RatLt(cx, RatOfInt(Val(image_width) - 1))]

ImageBoxCenter(labels, fmt, image_height, image_width) ==
    [i \in 1..Len(labels) |->
        LET cy == <<Col(labels[i], "ymin", fmt) + Col(labels[i], "ymax", fmt), 2>>
            cx == <<Col(labels[i], "xmin", fmt) + Col(labels[i], "xmax", fmt), 2>>
        IN  /\ RatLe(RatOfInt(0), cy)
            /\ RatLe(cy, RatOfInt(Val(image_height) - 1))
            /\ RatLe(RatOfInt(0), cx)
            /\ RatLe(cx, RatOfInt(Val(image_width) - 1))]

CenterPointCriterion(heap, labels_ref, self, image_height, image_width) ==
    IF image_height = None \/ image_width = None
    THEN [raised |-> "TypeError", mask |-> <<>>, heap |-> heap,
          intersection_areas |-> <<>>]
    ELSE [raised |-> "none",
          mask |-> ImageBoxCenter(heap[labels_ref], self.labels_format,
                                  image_height, image_width),
          heap |-> heap,
          intersection_areas |-> <<>>]

\* utils.bounding_box.iou(image_coords, boxes, coords='corners',
\* mode='element-wise', border_pixels): intersection / union per box, 0 when
\* the union is empty; it fails on a region size that is None
Iou(image_coords, boxes, border_pixels) ==
    LET d == BorderD(border_pixels)
        x2 == Val(image_coords[3])
        y2 == Val(image_coords[4])
        image_area == (x2 - Val(image_coords[1]) + d) * (y2 - Val(image_coords[2]) + d)
    IN  IF \E k \in 1..4 : image_coords[k] = None
        THEN [raised |-> "PreconditionError", iou |-> <<>>]
        ELSE [raised |-> "none",
              iou |-> [i \in 1..Len(boxes) |->
                LET b == boxes[i]
                    iw == Max(0, Min(x2, b[3]) - Max(Val(image_coords[1]), b[1]) + d)
                    ih == Max(0, Min(y2, b[4]) - Max(Val(image_coords[2]), b[2]) + d)
                    inter == iw * ih
                    box_area == (b[3] - b[1] + d) * (b[4] - b[2] + d)
                    union == image_area + box_area - inter
                IN  IF union <= 0 \/ inter <= 0 THEN <<0, 1>> ELSE <<inter, union>>]]

\* >= for > at the lower bound
IouMaskLowerInclusive(image_boxes_iou, lower, upper) ==
    [i \in 1..Len(image_boxes_iou) |->
        RatLe(lower, image_boxes_iou[i]) /\ RatLe(image_boxes_iou[i], upper)]

IouMask(image_boxes_iou, lower, upper) ==
    [i \in 1..Len(image_boxes_iou) |->
        RatGt(image_boxes_iou[i], lower) /\ RatLe(image_boxes_iou[i], upper)]

IouCriterion(heap, labels_ref, self, lower, upper, image_height, image_width) ==
    LET fmt == self.labels_format
        labels == heap[labels_ref]
        image_coords == <<Some(0), Some(0), image_width, image_height>>
        boxes == [i \in 1..Len(labels) |->
                    <<Col(labels[i], "xmin", fmt), Col(labels[i], "ymin", fmt),
                      Col(labels[i], "xmax", fmt), Col(labels[i], "ymax", fmt)>>]
        image_boxes_iou == Iou(image_coords, boxes, self.border_pixels)
    IN  IF image_boxes_iou.raised # "none"
        THEN [raised |-> image_boxes_iou.raised, mask |-> <<>>, heap |-> heap,
              intersection_areas |-> <<>>]
        ELSE [raised |-> "none",
              mask |-> IouMask(image_boxes_iou.iou, lower, upper),
              heap |-> heap,
              intersection_areas |-> <<>>]

\* lines 116-166: resolve the bounds, then the criterion's mask
OverlapCheck(heap, labels_ref, self, image_height, image_width) ==
    LET ob == self.overlap_bounds
        lower == ob.items[1]
        upper == ob.items[2]
    IN  IF ob.kind = "BoundGenerator"
        THEN \* class BoundGenerator has no __call__
             [raised |-> "TypeError", mask |-> <<>>, heap |-> heap,
              intersection_areas |-> <<>>]
        ELSE IF Len(ob.items) # 2
        THEN \* lower, upper = self.overlap_bounds cannot unpack
             [raised |-> "ValueError", mask |-> <<>>, heap |-> heap,
              intersection_areas |-> <<>>]
        ELSE CASE self.overlap_criterion = "iou" ->
                    IouCriterion(heap, labels_ref, self, lower, upper,
                                 image_height, image_width)
               [] self.overlap_criterion = "area" ->
                    AreaCriterion(heap, labels_ref, self, lower, upper,
                                  image_height, image_width)
               [] self.overlap_criterion = "center_point" ->
                    CenterPointCriterion(heap, labels_ref, self,
                                         image_height, image_width)

\* BoxFilter.__call__(labels, image_height, image_width): the exception it
\* raises ("none" when it returns), the array it returns, the caller's array
\* and the filter object as the call leaves them
Call(self, labels_in, image_height, image_width) ==
    LET heap0 == [r \in Refs |-> IF r = "arg" THEN labels_in ELSE <<>>]
        cp == NpCopy(heap0, "arg", "labels")
        labels == cp.heap[cp.ref]
        fmt == self.labels_format
        met0 == Ones(Len(labels))
        met1 == IF self.check_degenerate
                THEN MaskAnd(met0, NonDegenerate(labels, fmt)) ELSE met0
        met2 == IF self.check_min_area
                THEN MaskAnd(met1, MinAreaMet(labels, fmt, self.min_area)) ELSE met1
        ov == IF self.check_overlap
              THEN OverlapCheck(cp.heap, cp.ref, self, image_height, image_width)
              ELSE [raised |-> "none", mask |-> met0, heap |-> cp.heap,
                    intersection_areas |-> <<>>]
    IN  IF ov.raised # "none"
        THEN [raised |-> ov.raised, ret |-> <<>>, arg |-> ov.heap["arg"],
              self |-> self, intersection_areas |-> <<>>]
        ELSE [raised |-> "none",
              ret |-> BoolIndex(ov.heap[cp.ref], MaskAnd(met2, ov.mask)),
              arg |-> ov.heap["arg"],
              self |-> self,
              intersection_areas |-> ov.intersection_areas]

\* ------------------------------------------------------------------ inputs
Zero == <<0, 1>>
OneHalf == <<1, 2>>
One == <<1, 1>>
BoundVals == {Zero, OneHalf, One}

\* every 2-tuple over BoundVals (lower > upper included), tuples of the wrong
\* length, a BoundGenerator and a bare scalar
OverlapBoundsArgs ==
    {Tuple(<<a, b>>) : a, b \in BoundVals}
    \cup {Tuple(<<>>), Tuple(<<OneHalf>>), Tuple(<<Zero, OneHalf, One>>),
          BoundGeneratorObj, ScalarObj}

CriterionArgs == Criteria \cup {"giou"}

\* a layout with the class id in the last column
TrailingClassFormat == [class_id |-> 4, xmin |-> 0, ymin |-> 1, xmax |-> 2, ymax |-> 3]

CtorArgs ==
    [check_overlap : BOOLEAN, check_min_area : BOOLEAN, check_degenerate : BOOLEAN,
     overlap_criterion : CriterionArgs,
     overlap_bounds : OverlapBoundsArgs,
     min_area : {SmallMinArea},
     labels_format : {DefaultLabelsFormat, TrailingClassFormat},
     border_pixels : BorderPixels]

\* the row that holds box b = <<xmin, ymin, xmax, ymax>> and class_id in the
\* layout fmt
MakeRow(fmt, class_id, b) ==
    LET v == [class_id |-> class_id, xmin |-> b[1], ymin |-> b[2],
              xmax |-> b[3], ymax |-> b[4]]
    IN  [c \in 1..5 |-> v[CHOOSE f \in DOMAIN fmt : fmt[f] = c - 1]]

XCoords == -1..MaxCoord
YCoords == 0..MaxCoord
YMins == {0, 1}
Boxes == {<<x1, y1, x2, y2>> : x1 \in XCoords, y1 \in YMins,
                               x2 \in XCoords, y2 \in YCoords}

\* three boxes for the longer tables: one that covers the region
\* MaxCoord - 1 wide and MaxCoord high, one to the right of it and a
\* degenerate one inside it
TableBoxes ==
    {<<0, 0, MaxCoord - 1, MaxCoord>>,
     <<MaxCoord - 1, 0, MaxCoord, MaxCoord - 1>>,
     <<1, 1, 1, 2>>}

\* the label tables a caller passes to a filter with layout fmt: the empty
\* table, every table of one row, and the tables of 2..MaxRows rows over
\* TableBoxes, row i carrying class_id i
Tables(fmt) ==
    {<<>>} \cup {<<MakeRow(fmt, 1, b)>> : b \in Boxes}
    \cup UNION {{[i \in 1..n |-> MakeRow(fmt, i, f[i])] : f \in [1..n -> TableBoxes]} :
                n \in 2..MaxRows}

\* <<image_height, image_width>>
Regions ==
    {<<None, None>>, <<Some(MaxCoord), None>>, <<None, Some(MaxCoord - 1)>>,
     <<Some(0), Some(0)>>, <<Some(MaxCoord), Some(MaxCoord - 1)>>}

\* ------------------------------------------------------------------- state
VARIABLES
    pc,             \* "new", "constructed", "failed", "called", "reapplied"
    ctor_args,      \* the arguments BoxFilter(...) was called with
    self,           \* the filter object
    raised,         \* the exception of the last operation, "none" if it returned
    arg_before,     \* the caller's array as passed to the last call
    arg_after,      \* the caller's array after the last call
    image_height,
    image_width,
    ret,            \* the array the last call returned
    intersection_areas,  \* the last call's local of that name (area criterion)
    first_ret       \* in "reapplied": the return value that was passed back in

vars == <<pc, ctor_args, self, raised, arg_before, arg_after, image_height,
          image_width, ret, intersection_areas, first_ret>>

NoArgs == [constructed |-> FALSE]

Init ==
    /\ pc = "new"
    /\ ctor_args = NoArgs
    /\ self = NoFilter
    /\ raised = "none"
    /\ arg_before = <<>>
    /\ arg_after = <<>>
    /\ image_height = None
    /\ image_width = None
    /\ ret = <<>>
    /\ intersection_areas = <<>>
    /\ first_ret = <<>>

\* BoxFilter(**args)
Construct(args) ==
    /\ pc = "new"
    /\ LET r == BoxFilterInit(args)
       IN  /\ ctor_args' = args
           /\ self' = r.self
           /\ raised' = r.raised
           /\ pc' = IF r.raised = "none" THEN "constructed" ELSE "failed"
    /\ UNCHANGED <<arg_before, arg_after, image_height, image_width, ret,
                   intersection_areas, first_ret>>

DoCall(labels, h, w, next_pc) ==
    \E r \in {Call(self, labels, h, w)} :
        /\ arg_before' = labels
        /\ arg_after' = r.arg
        /\ image_height' = h
        /\ image_width' = w
        /\ self' = r.self
        /\ raised' = r.raised
        /\ ret' = r.ret
        /\ intersection_areas' = r.intersection_areas
        /\ pc' = next_pc
        /\ UNCHANGED ctor_args

\* box_filter(labels, image_height, image_width) on a constructed filter
Apply(labels, h, w) ==
    /\ pc = "constructed"
    /\ first_ret' = <<>>
    /\ DoCall(labels, h, w, "called")

\* box_filter(ret, image_height, image_width): the returned array is passed
\* back in with the same region
Reapply ==
    /\ pc = "called"
    /\ raised = "none"
    /\ first_ret' = ret
    /\ DoCall(ret, image_height, image_width, "reapplied")

\* the caller is done with the last call's arrays; the filter is kept for the
\* next call
Release ==
    /\ pc \in {"called", "reapplied"}
    /\ pc' = "constructed"
    /\ raised' = "none"
    /\ arg_before' = <<>>
    /\ arg_after' = <<>>
    /\ image_height' = None
    /\ image_width' = None
    /\ ret' = <<>>
    /\ intersection_areas' = <<>>
    /\ first_ret' = <<>>
    /\ UNCHANGED <<ctor_args, self>>

Next ==
    \/ pc = "new" /\ \E args \in CtorArgs : Construct(args)
    \/ pc = "constructed"
       /\ \E labels \in Tables(self.labels_format), reg \in Regions : Apply(labels, reg[1], reg[2])
    \/ Reapply
    \/ Release

Spec == Init /\ [][Next]_vars

\* ------------------------------------------------- vocabulary of the claims
Called == pc \in {"called", "reapplied"}
Returned == Called /\ raised = "none"

Xmin(row) == Col(row, "xmin", self.labels_format)
Ymin(row) == Col(row, "ymin", self.labels_format)
Xmax(row) == Col(row, "xmax", self.labels_format)
Ymax(row) == Col(row, "ymax", self.labels_format)

InRet(row) == \E j \in 1..Len(ret) : ret[j] = row

Degenerate(row) == Xmax(row) <= Xmin(row) \/ Ymax(row) <= Ymin(row)
PlainArea(row) == (Xmax(row) - Xmin(row)) * (Ymax(row) - Ymin(row))

\* the window is a (lower, upper) pair
FixedWindow == self.overlap_bounds.kind = "tuple" /\ Len(self.overlap_bounds.items) = 2
Lower == self.overlap_bounds.items[1]
Upper == self.overlap_bounds.items[2]

RegionGiven == image_height # None /\ image_width # None
RegionPositive == RegionGiven /\ Val(image_height) > 0 /\ Val(image_width) > 0

\* no pixel column or row of the box, borders included, lies in the region
Outside(row) ==
    \/ Xmin(row) >= Val(image_width) \/ Xmax(row) < 0
    \/ Ymin(row) >= Val(image_height) \/ Ymax(row) < 0

RECURSIVE IsSubsequence(_, _)
\* s is t with some rows left out
IsSubsequence(s, t) ==
    IF s = <<>> THEN TRUE
    ELSE IF t = <<>> THEN FALSE
    ELSE IF Head(s) = Head(t) THEN IsSubsequence(Tail(s), Tail(t))
    ELSE IsSubsequence(s, Tail(t))

\* the filter returns the row when it is passed alone with the same region
AcceptedAlone(row) ==
    Call(self, <<row>>, image_height, image_width).ret = <<row>>

\* ------------------------------------------------------------------- C1
\* C1: the array a call returns holds exactly the rows of the array passed in
\* that the filter accepts, in their order in the input: it is a subsequence
\* of the input.
C1_OutputIsAcceptedSubsequence ==
    Returned =>
        /\ IsSubsequence(ret, arg_before)
        /\ ret = SelectSeq(arg_before, AcceptedAlone)

\* a call on three rows that returned the first and the third
C1_Witness ==
    /\ Returned
    /\ Len(arg_before) = 3
    /\ ret = <<arg_before[1], arg_before[3]>>

\* ------------------------------------------------------------------- C2
\* C2: with a fixed window, passing the returned array back in with the same
\* region returns it unchanged.
C2_Idempotent ==
    (pc = "reapplied" /\ (self.check_overlap => FixedWindow)) =>
        raised = "none" /\ ret = first_ret

\* a second call on a result of two rows under an overlap check
C2_Witness ==
    /\ pc = "reapplied"
    /\ self.check_overlap
    /\ FixedWindow
    /\ Len(first_ret) >= 2
    /\ ret = first_ret

\* ------------------------------------------------------------------- C3
\* C3: under the area criterion with lower = 0, a box that has no pixel in
\* the region is not returned, whatever the border convention and the upper
\* bound (stated for the boxes with xmax > xmin and ymax > ymin).
C3_ZeroOverlapRejected ==
    (/\ Returned
     /\ self.check_overlap
     /\ self.overlap_criterion = "area"
     /\ FixedWindow
     /\ Lower[1] = 0
     /\ RegionPositive) =>
        \A i \in 1..Len(arg_before) :
            (~Degenerate(arg_before[i]) /\ Outside(arg_before[i]))
                => ~InRet(arg_before[i])

\* ------------------------------------------------------------------- C4
Misconfigured(args) ==
    \/ args.overlap_bounds.kind \notin {"tuple", "BoundGenerator"}
    \/ args.overlap_bounds.kind = "tuple" /\ Len(args.overlap_bounds.items) # 2
    \/ /\ args.overlap_bounds.kind = "tuple"
       /\ Len(args.overlap_bounds.items) = 2
       /\ RatGt(args.overlap_bounds.items[1], args.overlap_bounds.items[2])
    \/ args.overlap_criterion \notin Criteria

\* C4: the constructor raises, and leaves no filter, when overlap_bounds is
\* neither a pair nor a BoundGenerator, when the pair has lower > upper, or
\* when the criterion is not one of the three.
C4_MisconfiguredRejected ==
    (pc # "new" /\ Misconfigured(ctor_args)) =>
        pc = "failed" /\ raised # "none" /\ self = NoFilter

\* ------------------------------------------------------------------- C5
\* C5: with check_overlap on, a call without a region size (None or not
\* positive) raises; with check_overlap off a call never raises (stated for
\* the center_point and area criteria, and for a window that is a pair).
C5_MissingRegionRaises ==
    (Called /\ FixedWindow /\ self.overlap_criterion # "iou") =>
        /\ (self.check_overlap /\ ~RegionPositive) => raised # "none"
        /\ ~self.check_overlap => raised = "none"

\* ------------------------------------------------------------------- C6
\* a row passes the degenerate and min-area checks that are enabled
PassesSizeChecks(row) ==
    /\ self.check_degenerate => ~Degenerate(row)
    /\ self.check_min_area => PlainArea(row) >= self.min_area

CenterInside(row) ==
    /\ 0 <= Xmin(row) + Xmax(row)
    /\ Xmin(row) + Xmax(row) <= 2 * (Val(image_width) - 1)
    /\ 0 <= Ymin(row) + Ymax(row)
    /\ Ymin(row) + Ymax(row) <= 2 * (Val(image_height) - 1)

C6Accepts(row) == PassesSizeChecks(row) /\ CenterInside(row)

\* C6: under the center_point criterion a call with a region returns exactly
\* the rows that pass the enabled size checks and whose center lies in
\* [0, width-1] x [0, height-1], ends included, whatever the window.
C6_CenterPointInclusive ==
    (/\ Called
     /\ self.check_overlap
     /\ self.overlap_criterion = "center_point"
     /\ FixedWindow
     /\ RegionGiven) =>
        raised = "none" /\ ret = SelectSeq(arg_before, C6Accepts)

\* a returned box whose center is the corner (width-1, height-1)
C6_Witness ==
    /\ Returned
    /\ self.check_overlap
    /\ self.overlap_criterion = "center_point"
    /\ RegionPositive
    /\ \E i \in 1..Len(arg_before) :
        /\ Xmin(arg_before[i]) + Xmax(arg_before[i]) = 2 * (Val(image_width) - 1)
        /\ Ymin(arg_before[i]) + Ymax(arg_before[i]) = 2 * (Val(image_height) - 1)
        /\ InRet(arg_before[i])

\* ------------------------------------------------------------------- C7
RatEq(a, b) == a[1] * b[2] = b[1] * a[2]

\* the IoU of a row's box with the region rectangle (0, 0, width, height)
RowIou(row) ==
    Iou(<<Some(0), Some(0), image_width, image_height>>,
        <<<<Xmin(row), Ymin(row), Xmax(row), Ymax(row)>>>>,
        self.border_pixels).iou[1]

IouCase ==
    /\ Returned
    /\ RegionPositive
    /\ self.check_overlap
    /\ self.overlap_criterion = "iou"
    /\ FixedWindow

\* C7 as stated: under the iou criterion, for every window the constructor
\* accepts, a box whose IoU equals upper is returned and a box whose IoU
\* equals lower is not.
C7_IouBoundsAsStated ==
    IouCase =>
        \A i \in 1..Len(arg_before) :
            PassesSizeChecks(arg_before[i]) =>
                /\ RatEq(RowIou(arg_before[i]), Upper) => InRet(arg_before[i])
                /\ RatEq(RowIou(arg_before[i]), Lower) => ~InRet(arg_before[i])

\* C7 amended: a box whose IoU equals lower is never returned; a box whose
\* IoU equals upper is returned when lower < upper.
C7_IouBounds ==
    IouCase =>
        \A i \in 1..Len(arg_before) :
            PassesSizeChecks(arg_before[i]) =>
                /\ (RatEq(RowIou(arg_before[i]), Upper) /\ RatLt(Lower, Upper))
                        => InRet(arg_before[i])
                /\ RatEq(RowIou(arg_before[i]), Lower) => ~InRet(arg_before[i])

\* a returned box whose IoU is exactly upper, in a window with 0 < lower < upper
C7_Witness ==
    /\ IouCase
    /\ RatLt(Zero, Lower)
    /\ RatLt(Lower, Upper)
    /\ \E i \in 1..Len(arg_before) :
        /\ PassesSizeChecks(arg_before[i])
        /\ RatEq(RowIou(arg_before[i]), Upper)
        /\ InRet(arg_before[i])

\* ------------------------------------------------------------------- C8
\* the overlap check alone accepts the row (true when it is disabled)
PassesOverlap(row) ==
    self.check_overlap =>
        OverlapCheck([r \in Refs |-> <<row>>], "labels", self,
                     image_height, image_width).mask[1]

\* C8: no returned row is degenerate when check_degenerate is on, none has
\* (xmax-xmin)*(ymax-ymin) < min_area when check_min_area is on; with
\* check_degenerate off a degenerate row is returned unless the min-area or
\* the overlap check rejects it.
C8_SizeChecks ==
    Returned =>
        /\ \A j \in 1..Len(ret) :
            /\ self.check_degenerate => ~Degenerate(ret[j])
            /\ self.check_min_area => PlainArea(ret[j]) >= self.min_area
        /\ ~self.check_degenerate =>
            \A i \in 1..Len(arg_before) :
                Degenerate(arg_before[i]) =>
                    (InRet(arg_before[i]) <=>
                        /\ self.check_min_area => PlainArea(arg_before[i]) >= self.min_area
                        /\ PassesOverlap(arg_before[i]))

\* both size checks on: a degenerate row was passed in and left out while
\* another row was returned
C8_Witness ==
    /\ Returned
    /\ self.check_degenerate
    /\ self.check_min_area
    /\ ret # <<>>
    /\ \E i \in 1..Len(arg_before) : Degenerate(arg_before[i]) /\ ~InRet(arg_before[i])

\* ------------------------------------------------------------------- C9
\* C9: a call leaves the caller's array and the filter's configuration as
\* they were.
C9_CallHasNoSideEffect ==
    Called =>
        /\ arg_after = arg_before
        /\ self = BoxFilterInit(ctor_args).self

\* an area-criterion call that clipped a box reaching beyond the region
C9_Witness ==
    /\ Returned
    /\ self.check_overlap
    /\ self.overlap_criterion = "area"
    /\ RegionPositive
    /\ \E i \in 1..Len(arg_before) : Xmax(arg_before[i]) > Val(image_width) - 1
    /\ arg_after = arg_before

\* ------------------------------------------------------------------- C10
\* C10: the intersection area the area criterion computes is never negative
\* and is 0 for a box with no pixel in the region, for every non-degenerate
\* box and every border convention.
C10_IntersectionNonNegative ==
    (/\ Returned
     /\ self.check_overlap
     /\ self.overlap_criterion = "area"
     /\ RegionPositive) =>
        \A i \in 1..Len(arg_before) :
            ~Degenerate(arg_before[i]) =>
                /\ intersection_areas[i] >= 0
                /\ Outside(arg_before[i]) => intersection_areas[i] = 0

====
